---------------------------- MODULE Spec2Model ----------------------------
(***************************************************************************)
(* A model of tableReader.py: the cell extractors (parse_g_mass_list,      *)
(* parse_temp_time, parse_pressure, parse_gas_flows), the multi-load row   *)
(* splitter (split_multi_load_row) and the record builder                  *)
(* (row_to_records / build_one).                                           *)
(*                                                                         *)
(* A cell is a sequence of characters.  An ASCII character is the          *)
(* one-character string itself; the non-ASCII characters of the source are *)
(* named: "EN" (U+2013 en-dash), "EM" (U+2014 em-dash), "DEG" (U+00B0),    *)
(* "SIM" (U+223C), "THIN" (U+2009 thin space).                             *)
(*                                                                         *)
(* A Python float is modelled by the exact rational <<n, d>> (d > 0,       *)
(* lowest terms) its decimal text denotes; an Optional value is <<>> for   *)
(* None and <<v>> for a value v.  The confidence is kept in hundredths.    *)
(***************************************************************************)
EXTENDS Integers, Sequences, FiniteSets, TLC

VARIABLES cols, pc, paired, idx, records, cell, out

vars == <<cols, pc, paired, idx, records, cell, out>>

---------------------------------------------------------------------------
(* Characters *)

DigitSeq == <<"0", "1", "2", "3", "4", "5", "6", "7", "8", "9">>

Digits == {DigitSeq[i] : i \in 1..10}

UpperLetters == <<"A", "B", "C", "D", "E", "F", "G", "H", "I", "J", "K", "L", "M",
                  "N", "O", "P", "Q", "R", "S", "T", "U", "V", "W", "X", "Y", "Z">>

LowerLetters == <<"a", "b", "c", "d", "e", "f", "g", "h", "i", "j", "k", "l", "m",
                  "n", "o", "p", "q", "r", "s", "t", "u", "v", "w", "x", "y", "z">>

Letters == {UpperLetters[i] : i \in 1..26} \cup {LowerLetters[i] : i \in 1..26}

\* \w of a Python str pattern, over the characters of the model
WordChars == Letters \cup Digits \cup {"_"}

\* \s of a Python str pattern, over the characters of the model
Spaces == {" ", "THIN"}

\* str.lower() of one character
LowerChar(c) ==
    IF \E i \in 1..26 : UpperLetters[i] = c
    THEN LowerLetters[CHOOSE i \in 1..26 : UpperLetters[i] = c]
    ELSE c

\* str.lower()
Lower(s) == [i \in 1..Len(s) |-> LowerChar(s[i])]

\* the substring test: w in s
Contains(s, w) ==
    \E i \in 1..(Len(s) - Len(w) + 1) : SubSeq(s, i, i + Len(w) - 1) = w

\* str.replace(old, new) for a one-character old
ReplaceChar(s, old, new) == [i \in 1..Len(s) |-> IF s[i] = old THEN new ELSE s[i]]

\* str.endswith for a one-character suffix
EndsWith(s, c) == Len(s) > 0 /\ s[Len(s)] = c

RECURSIVE RunLen(_, _, _)
\* the number of leading characters of s, from position i on, that are in S
RunLen(S, s, i) ==
    IF i <= Len(s) /\ s[i] \in S THEN 1 + RunLen(S, s, i + 1) ELSE 0

RECURSIVE Collapse(_, _)
\* re.sub(r"\s+", " ", s) from position i on
Collapse(s, i) ==
    IF i > Len(s) THEN <<>>
    ELSE IF s[i] \in Spaces
         THEN <<" ">> \o Collapse(s, i + RunLen(Spaces, s, i))
         ELSE <<s[i]>> \o Collapse(s, i + 1)

\* str.strip()
Strip(s) ==
    LET a == RunLen(Spaces, s, 1)
    IN  IF a = Len(s) THEN <<>>
        ELSE LET b == CHOOSE j \in 1..Len(s) :
                          /\ s[j] \notin Spaces
                          /\ \A k \in (j + 1)..Len(s) : s[k] \in Spaces
             IN  SubSeq(s, a + 1, b)

clean(s) == Collapse(Strip(s), 1)

\* clean(cell).replace(THIN SPACE, " "), the normal form every parser starts from
CleanCell(s) == ReplaceChar(clean(s), "THIN", " ")

Sentinels == {<<"-">>, <<"EN">>, <<"EM">>}

---------------------------------------------------------------------------
\* Regular expressions, with Python's backtracking order.  A pattern is a
\* tuple: <<"lit", c>>, <<"cls", S>>, <<"star", S>> (zero or more of S),
\* <<"plus", S>> (one or more of S), <<"opt", r>>, <<"wb">> (a word boundary),
\* <<"cat", rs>>, <<"alt", rs>>.  Ends(r, s, i) is the sequence of positions
\* at which a match of r that starts at position i can end, in the order the
\* backtracking matcher tries them (greedy first).

IsWordAt(s, i) == i >= 1 /\ i <= Len(s) /\ s[i] \in WordChars

RECURSIVE Flatten(_)
\* the concatenation of a sequence of sequences
Flatten(qs) == IF qs = <<>> THEN <<>> ELSE Head(qs) \o Flatten(Tail(qs))

RECURSIVE Ends(_, _, _)
Ends(r, s, i) ==
    CASE r[1] = "lit"  -> IF i <= Len(s) /\ s[i] = r[2] THEN <<i + 1>> ELSE <<>>
      [] r[1] = "cls"  -> IF i <= Len(s) /\ s[i] \in r[2] THEN <<i + 1>> ELSE <<>>
      [] r[1] = "star" -> LET n == RunLen(r[2], s, i) IN [k \in 1..(n + 1) |-> i + n + 1 - k]
      [] r[1] = "plus" -> LET n == RunLen(r[2], s, i) IN [k \in 1..n |-> i + n + 1 - k]
      [] r[1] = "opt"  -> Ends(r[2], s, i) \o <<i>>
      [] r[1] = "wb"   -> IF IsWordAt(s, i - 1) # IsWordAt(s, i) THEN <<i>> ELSE <<>>
      [] r[1] = "cat"  ->
            IF r[2] = <<>> THEN <<i>>
            ELSE LET es == Ends(r[2][1], s, i)
                 IN  Flatten([j \in 1..Len(es) |-> Ends(<<"cat", Tail(r[2])>>, s, es[j])])
      [] r[1] = "alt"  -> Flatten([k \in 1..Len(r[2]) |-> Ends(r[2][k], s, i)])

\* the first of the ways that is a match, behind the start i; <<>> if none is
FirstWay(i, ways) ==
    LET ok == {j \in 1..Len(ways) : ways[j] # <<>>}
    IN  IF ok = {} THEN <<>>
        ELSE <<i>> \o ways[CHOOSE j \in ok : \A h \in ok : j <= h]

RECURSIVE Path(_, _, _, _), PathVia(_, _, _, _, _)
\* The first successful way to match the parts k.. of a pattern at position
\* i: <<i, end of part k, ..., end of the last part>>, or <<>> if none.
Path(parts, k, s, i) ==
    IF k > Len(parts) THEN <<i>>
    ELSE PathVia(parts, k, s, i, Ends(parts[k], s, i))

\* ... with part k ending at one of es, tried in order
PathVia(parts, k, s, i, es) ==
    FirstWay(i, [j \in 1..Len(es) |-> Path(parts, k + 1, s, es[j])])

RECURSIVE Search(_, _, _), SearchAt(_, _, _, _)
\* re.search from position `from` on: the leftmost match, <<>> if none
Search(parts, s, from) ==
    IF from > Len(s) + 1 THEN <<>>
    ELSE SearchAt(parts, s, from, Path(parts, 1, s, from))

\* ... given the match p at `from`, if there is one
SearchAt(parts, s, from, p) ==
    IF p # <<>> THEN p ELSE Search(parts, s, from + 1)

RECURSIVE FindAllFrom(_, _, _), FindAllNext(_, _, _)
\* re.findall / re.finditer: the successive non-overlapping matches
FindAllFrom(parts, s, from) == FindAllNext(parts, s, Search(parts, s, from))

\* ... given the next match m, if there is one
FindAllNext(parts, s, m) ==
    IF m = <<>> THEN <<>>
    ELSE <<m>> \o FindAllFrom(parts, s, IF m[Len(m)] > m[1] THEN m[Len(m)]
                                        ELSE m[Len(m)] + 1)

FindAll(parts, s) == FindAllFrom(parts, s, 1)

\* the text of the k-th part of a match
Group(s, m, k) == SubSeq(s, m[k], m[k + 1] - 1)

\* RE_FLOAT = [-+]?\d*\.?\d+(?:[eE][-+]?\d+)?
RE_FLOAT ==
    <<"cat", << <<"opt", <<"cls", {"-", "+"}>>>>,
                <<"star", Digits>>,
                <<"opt", <<"lit", ".">>>>,
                <<"plus", Digits>>,
                <<"opt", <<"cat", << <<"cls", {"e", "E"}>>,
                                     <<"opt", <<"cls", {"-", "+"}>>>>,
                                     <<"plus", Digits>> >> >> >> >> >>

WS == <<"star", Spaces>>

WB == <<"wb">>

RECURSIVE Word(_)
\* a literal word
Word(w) == IF w = <<>> THEN <<>> ELSE << <<"lit", Head(w)>> >> \o Word(Tail(w))

---------------------------------------------------------------------------
(* float() of a text that matches RE_FLOAT, as an exact rational *)

DigitVal(c) == (CHOOSE i \in 1..10 : DigitSeq[i] = c) - 1

RECURSIVE IntOf(_)
IntOf(ds) == IF ds = <<>> THEN 0 ELSE IntOf(SubSeq(ds, 1, Len(ds) - 1)) * 10 + DigitVal(ds[Len(ds)])

RECURSIVE Pow10(_)
Pow10(k) == IF k = 0 THEN 1 ELSE 10 * Pow10(k - 1)

RECURSIVE Gcd(_, _)
Gcd(a, b) == IF b = 0 THEN a ELSE Gcd(b, a % b)

Abs(n) == IF n < 0 THEN -n ELSE n

\* the rational n/d in lowest terms
Rat(n, d) == LET g == Gcd(Abs(n), d) IN <<n \div g, d \div g>>

\* only the digits of a text
OnlyDigits(t) == SelectSeq(t, LAMBDA c : c \in Digits)

ToFloat(t) ==
    LET epos == {i \in 1..Len(t) : t[i] \in {"e", "E"}}
        mant == IF epos = {} THEN t ELSE SubSeq(t, 1, (CHOOSE i \in epos : TRUE) - 1)
        expo == IF epos = {} THEN <<>> ELSE SubSeq(t, (CHOOSE i \in epos : TRUE) + 1, Len(t))
        neg  == Len(mant) > 0 /\ mant[1] = "-"
        dot  == {i \in 1..Len(mant) : mant[i] = "."}
        frac == IF dot = {} THEN 0 ELSE Len(mant) - (CHOOSE i \in dot : TRUE)
        m    == IntOf(OnlyDigits(mant))
        e    == IF Len(expo) > 0 /\ expo[1] = "-" THEN -IntOf(OnlyDigits(expo))
                ELSE IntOf(OnlyDigits(expo))
        sm   == IF neg THEN -m ELSE m
    IN  IF e - frac >= 0 THEN Rat(sm * Pow10(e - frac), 1)
        ELSE Rat(sm, Pow10(frac - e))

None == <<>>

Some(v) == <<v>>

---------------------------------------------------------------------------
(* The extractors *)

\* (RE_FLOAT)\s*g\b
RE_MASS == <<RE_FLOAT, <<"cat", <<WS, <<"lit", "g">>, WB>>>>>>

\* line 33: [float(v) for v in vals]
MassValues(c, vals) == [k \in 1..Len(vals) |-> Some(ToFloat(Group(c, vals[k], 1)))]

\* lines 25-33, on the cleaned cell c with vals the matches of line 29
MassList(c, vals) ==
    IF c \in Sentinels THEN <<None>>
    ELSE IF \/ Contains(c, <<"<">>)
            \/ Contains(c, <<">">>)
            \/ Contains(Lower(c), <<"r", "i", "c", "h">>)
            \/ Contains(c, <<"SIM">>)
    THEN <<None>>
    ELSE IF vals = <<>> THEN <<None>>
    ELSE MassValues(c, vals)

\* ... on the cleaned cell
MassListOf(c) == MassList(c, FindAll(RE_MASS, c))

parse_g_mass_list(c0) == MassListOf(CleanCell(c0))

parse_s_amount_notes(c0) == CleanCell(c0)

\* (\d+)\s*[EN-]\s*(\d+)\s*DEG?C
RE_TEMP_PROFILE ==
    << <<"plus", Digits>>, WS, <<"cls", {"EN", "-"}>>, WS, <<"plus", Digits>>, WS,
       <<"opt", <<"lit", "DEG">>>>, <<"lit", "C">> >>

\* (RE_FLOAT)\s*DEG?C
RE_TEMP == <<RE_FLOAT, <<"cat", <<WS, <<"opt", <<"lit", "DEG">>>>, <<"lit", "C">> >> >> >>

\* (RE_FLOAT)\s*[EN-]\s*(RE_FLOAT)\s*min
RE_TIME_RANGE ==
    <<RE_FLOAT, WS, <<"cls", {"EN", "-"}>>, WS, RE_FLOAT, WS,
      <<"cat", Word(<<"m", "i", "n">>)>> >>

\* (RE_FLOAT)\s*min
RE_TIME == <<RE_FLOAT, <<"cat", <<WS>> \o Word(<<"m", "i", "n">>)>> >>

\* a faulty parse_temp_time, which keeps the cell as evidence only of the
\* values it could read
TempTimeResultEvidenceOfValues(raw, profile, mt, range, mm) ==
    LET approx == Contains(raw, <<"SIM">>) \/ Contains(raw, <<"~">>)
        temp_C == IF profile THEN None
                  ELSE IF mt # <<>> THEN Some(ToFloat(Group(raw, mt, 1))) ELSE None
        time1  == IF range THEN None
                  ELSE IF mm # <<>> THEN Some(ToFloat(Group(raw, mm, 1))) ELSE None
        flags  == (IF approx THEN <<"approximate_value_present">> ELSE <<>>)
                  \o (IF profile THEN <<"temperature_profile_unparsed">> ELSE <<>>)
                  \o (IF range THEN <<"range_value_unresolved">> ELSE <<>>)
        time_min == IF profile /\ mm # <<>> THEN Some(ToFloat(Group(raw, mm, 1)))
                    ELSE time1
    IN  [temperature_C   |-> temp_C,
         growth_time_min |-> time_min,
         flags           |-> flags,
         evidence        |-> [temperature_C   |-> IF temp_C = None THEN <<>> ELSE <<raw>>,
                              growth_time_min |-> IF time_min = None THEN <<>> ELSE <<raw>>]]

\* lines 48-77, on the cleaned cell raw: profile and range say whether the
\* patterns of lines 56 and 64 match, mt and mm are the matches of lines 60
\* and 68
TempTimeResult(raw, profile, mt, range, mm) ==
    LET approx == Contains(raw, <<"SIM">>) \/ Contains(raw, <<"~">>)
        temp_C == IF profile THEN None
                  ELSE IF mt # <<>> THEN Some(ToFloat(Group(raw, mt, 1))) ELSE None
        time1  == IF range THEN None
                  ELSE IF mm # <<>> THEN Some(ToFloat(Group(raw, mm, 1))) ELSE None
        flags  == (IF approx THEN <<"approximate_value_present">> ELSE <<>>)
                  \o (IF profile THEN <<"temperature_profile_unparsed">> ELSE <<>>)
                  \o (IF range THEN <<"range_value_unresolved">> ELSE <<>>)
        \* lines 71-75: with a temperature profile the single-time pattern is
        \* searched again and its match replaces time_min
        time_min == IF profile /\ mm # <<>> THEN Some(ToFloat(Group(raw, mm, 1)))
                    ELSE time1
    IN  [temperature_C   |-> temp_C,
         growth_time_min |-> time_min,
         flags           |-> flags,
         evidence        |-> [temperature_C |-> <<raw>>, growth_time_min |-> <<raw>>]]

\* ... on the cleaned cell
TempTimeOf(raw) ==
    TempTimeResult(raw,
                   Search(RE_TEMP_PROFILE, raw, 1) # <<>>,
                   Search(RE_TEMP, raw, 1),
                   Search(RE_TIME_RANGE, raw, 1) # <<>>,
                   Search(RE_TIME, raw, 1))

parse_temp_time(c0) == TempTimeOf(CleanCell(c0))

\* (RE_FLOAT)\s*Pa\b with re.IGNORECASE: matched on the lower-cased text
RE_PA == <<RE_FLOAT, <<"cat", <<WS>> \o Word(<<"p", "a">>) \o <<WB>> >> >>

\* (RE_FLOAT)\s*Torr\b with re.IGNORECASE: matched on the lower-cased text
RE_TORR == <<RE_FLOAT, <<"cat", <<WS>> \o Word(<<"t", "o", "r", "r">>) \o <<WB>> >> >>

\* pa / 133.322
PaToTorr(pa) == Rat(pa[1] * 1000, pa[2] * 133322)

\* a faulty parse_pressure, which tries the Torr pattern before the Pa pattern
PressureResultTorrFirst(raw, low, mpa, mto) ==
    IF low = <<"a", "m", "b", "i", "e", "n", "t">>
    THEN [pressure_Torr |-> Some(<<760, 1>>), flags |-> <<"pressure_assumed_ambient">>,
          evidence |-> <<raw>>]
    ELSE IF raw \in Sentinels
    THEN [pressure_Torr |-> None, flags |-> <<"pressure_missing">>, evidence |-> <<raw>>]
    ELSE IF mto # <<>>
    THEN [pressure_Torr |-> Some(ToFloat(Group(low, mto, 1))), flags |-> <<>>,
          evidence |-> <<raw>>]
    ELSE IF mpa # <<>>
    THEN [pressure_Torr |-> Some(PaToTorr(ToFloat(Group(low, mpa, 1)))), flags |-> <<>>,
          evidence |-> <<raw>>]
    ELSE [pressure_Torr |-> None, flags |-> <<"pressure_unparsed">>, evidence |-> <<raw>>]

\* lines 90-107, on the cleaned cell raw and its lower-cased text low: mpa
\* and mto are the matches of lines 96 and 102
PressureResult(raw, low, mpa, mto) ==
    IF low = <<"a", "m", "b", "i", "e", "n", "t">>
    THEN [pressure_Torr |-> Some(<<760, 1>>), flags |-> <<"pressure_assumed_ambient">>,
          evidence |-> <<raw>>]
    ELSE IF raw \in Sentinels
    THEN [pressure_Torr |-> None, flags |-> <<"pressure_missing">>, evidence |-> <<raw>>]
    ELSE IF mpa # <<>>
    THEN [pressure_Torr |-> Some(PaToTorr(ToFloat(Group(low, mpa, 1)))), flags |-> <<>>,
          evidence |-> <<raw>>]
    ELSE IF mto # <<>>
    THEN [pressure_Torr |-> Some(ToFloat(Group(low, mto, 1))), flags |-> <<>>,
          evidence |-> <<raw>>]
    ELSE [pressure_Torr |-> None, flags |-> <<"pressure_unparsed">>, evidence |-> <<raw>>]

\* ... with the two searches
PressureLow(raw, low) ==
    PressureResult(raw, low, Search(RE_PA, low, 1), Search(RE_TORR, low, 1))

\* ... on the cleaned cell
PressureOf(raw) == PressureLow(raw, Lower(raw))

parse_pressure(c0) == PressureOf(CleanCell(c0))

\* ([A-Za-z0-9\(\)]+)\s*(RE_FLOAT)\s*sccm\b
RE_GAS ==
    << <<"plus", Letters \cup Digits \cup {"(", ")"}>>, WS, RE_FLOAT,
       <<"cat", <<WS>> \o Word(<<"s", "c", "c", "m">>) \o <<WB>> >> >>

RECURSIVE DictOf(_)
\* the dict built by flows[gas] = val over the pairs: the keys in first-seen
\* order, each with its last value
DictOf(pairs) ==
    IF pairs = <<>> THEN <<>>
    ELSE LET init == DictOf(SubSeq(pairs, 1, Len(pairs) - 1))
             p    == pairs[Len(pairs)]
         IN  IF \E k \in 1..Len(init) : init[k][1] = p[1]
             THEN [k \in 1..Len(init) |-> IF init[k][1] = p[1] THEN p ELSE init[k]]
             ELSE Append(init, p)

\* lines 129-132: the (gas, value) pairs of the matches ms in tmp
GasPairs(tmp, ms) ==
    [k \in 1..Len(ms) |-> <<Group(tmp, ms[k], 1), ToFloat(Group(tmp, ms[k], 3))>>]

\* a faulty parse_gas_flows, which returns no flows without a flag
GasResultSilent(raw, pairs, flows) ==
    [carrier_gas |-> [k \in 1..Len(flows) |-> flows[k][1]], gas_flows_sccm |-> flows,
     flags |-> <<>>, evidence |-> <<raw>>]

\* lines 134-152, with the dict of the pairs
GasResult(raw, pairs, flows) ==
    IF pairs = <<>>
    THEN [carrier_gas |-> <<>>, gas_flows_sccm |-> <<>>,
          flags |-> <<"gas_flow_unparsed">>, evidence |-> <<raw>>]
    ELSE [carrier_gas |-> [k \in 1..Len(flows) |-> flows[k][1]], gas_flows_sccm |-> flows,
          flags |-> <<>>, evidence |-> <<raw>>]

GasFlows(raw, pairs) == GasResult(raw, pairs, DictOf(pairs))

\* line 127: tmp = raw.replace("/", " ")
GasTmp(raw, tmp) == GasFlows(raw, GasPairs(tmp, FindAll(RE_GAS, tmp)))

\* ... on the cleaned cell
GasFlowsOf(raw) == GasTmp(raw, ReplaceChar(raw, "/", " "))

parse_gas_flows(c0) == GasFlowsOf(CleanCell(c0))

---------------------------------------------------------------------------
(* The multi-load row splitter *)

\* (<\s*RE_FLOAT\s*g\b|RE_FLOAT\s*g\b)
RE_S_TOKEN ==
    << <<"alt", << <<"cat", << <<"lit", "<">>, WS, RE_FLOAT, WS, <<"lit", "g">>, WB >> >>,
                   <<"cat", << RE_FLOAT, WS, <<"lit", "g">>, WB >> >> >> >> >>

\* a faulty splitter, which pairs up to the shorter list as zip() does
\* instead of refusing unequal counts
SplitPairsZip(mo_cell_c, s_cell_c, mo_vals, s_vals) ==
    LET mo_list == [k \in 1..Len(mo_vals) |-> ToFloat(Group(mo_cell_c, mo_vals[k], 1))]
        s_list  == [k \in 1..Len(s_vals) |-> clean(Group(s_cell_c, s_vals[k], 1))]
        n       == IF Len(mo_list) <= Len(s_list) THEN Len(mo_list) ELSE Len(s_list)
    IN  IF Len(mo_vals) >= 2 /\ Len(s_vals) >= 2
        THEN Some([k \in 1..n |-> <<mo_list[k], s_list[k]>>])
        ELSE None

\* lines 167-175, with the matches of lines 163 and 164
SplitPairs(mo_cell_c, s_cell_c, mo_vals, s_vals) ==
    LET mo_list == [k \in 1..Len(mo_vals) |-> ToFloat(Group(mo_cell_c, mo_vals[k], 1))]
        s_list  == [k \in 1..Len(s_vals) |-> clean(Group(s_cell_c, s_vals[k], 1))]
    IN  IF Len(mo_vals) >= 2 /\ Len(s_vals) >= 2
        THEN IF Len(mo_list) # Len(s_list) THEN None
             ELSE Some([k \in 1..Len(mo_list) |-> <<mo_list[k], s_list[k]>>])
        ELSE None

\* ... on the cleaned cells
SplitOf(mo_cell_c, s_cell_c) ==
    SplitPairs(mo_cell_c, s_cell_c, FindAll(RE_MASS, mo_cell_c),
               FindAll(RE_S_TOKEN, s_cell_c))

split_multi_load_row(mo_cell, s_cell) == SplitOf(CleanCell(mo_cell), CleanCell(s_cell))

---------------------------------------------------------------------------
(* The record builder *)

make_base(paper_meta) ==
    [paper     |-> paper_meta,
     condition |-> [material |-> None, growth_method |-> None, substrate |-> None,
                    temperature_C |-> None, pressure_Torr |-> None,
                    growth_time_min |-> None, carrier_gas |-> <<>>, reactants |-> <<>>,
                    gas_flows_sccm |-> <<>>, ramp_rate_C_per_min |-> None,
                    cooldown |-> None,
                    anneal |-> [temperature_C |-> None, time_min |-> None,
                                atmosphere |-> None],
                    transfer_method |-> None, notes |-> None],
     outcomes  |-> [device_type |-> None, mobility_cm2_Vs |-> None, on_off_ratio |-> None,
                    vth_V |-> None, contact_resistance_Ohm_um |-> None,
                    yield_percent |-> None, layer_count |-> None,
                    domain_size_um |-> None, defect_density_cm2 |-> None],
     evidence  |-> [temperature_C |-> <<>>, pressure_Torr |-> <<>>,
                    growth_time_min |-> <<>>, gas_flows_sccm |-> <<>>,
                    substrate |-> <<>>, reactants |-> <<>>, growth_method |-> <<>>],
     quality   |-> [confidence |-> 0, missing_required_fields |-> <<>>, flags |-> <<>>]]

\* cols.get(key, "")
Get(c, key) == IF key \in DOMAIN c THEN c[key] ELSE <<>>

\* a faulty row reader, which takes every load column by subscript
RaisesKeyErrorBothLoads(c) ==
    "Mo source" \notin DOMAIN c \/ "Sulfur source" \notin DOMAIN c

\* cols["Mo source"] raises KeyError
RaisesKeyError(c) == "Mo source" \notin DOMAIN c

\* lines 276-291: the source species labels
Reactants(mo_clean, s_clean) ==
    (IF Contains(mo_clean, <<"M", "o", "C", "l", "5">>) THEN <<"MoCl5 powder">>
     ELSE IF Contains(mo_clean, <<"M", "o", "S", "2">>) THEN <<"MoS2 powder">>
     ELSE IF Contains(mo_clean, <<"n", "a", "n", "o", "r", "i", "b", "b", "o", "n", "s">>) THEN <<"MoO3 nanoribbons">>
     ELSE <<"MoO3 powder">>)
    \o (IF /\ ~Contains(mo_clean, <<"S", "i", "n", "g", "l", "e", " ", "s", "o", "u", "r", "c", "e">>)
           /\ ~Contains(mo_clean, <<"M", "o", "S", "2", " ", "p", "o", "w", "d", "e", "r">>)
        THEN IF Contains(s_clean, <<"H", "2", "S">>) THEN <<"H2S">>
             ELSE IF s_clean # <<>> THEN <<"S powder">> ELSE <<>>
        ELSE <<>>)

\* lines 298-310: the parts of the notes, which " ".join puts together; the
\* f-string text of a float is kept as the float
Notes(mo_clean, s_clean, mo_override_g, s_override_note, ref) ==
    << IF mo_override_g # None
       THEN <<"Mo source load override from paired list:", mo_override_g[1], <<"g">> >>
       ELSE <<"Mo source cell:", mo_clean>> >>
    \o (IF s_override_note # None
        THEN << <<"S source load override from paired list:", s_override_note[1]>> >>
        ELSE IF s_clean # <<>> THEN << <<"S source cell:", s_clean>> >> ELSE <<>>)
    \o << <<"Cited ref:", ref, <<".">> >> >>

\* a faulty inequality test, which looks at the paired token alone when there
\* is one
InequalityOfToken(s_clean, s_override_note) ==
    IF s_override_note # None /\ s_override_note[1] # <<>>
    THEN Contains(s_override_note[1], <<"<">>)
    ELSE Contains(s_clean, <<"<">>)

\* "<" in s_clean or (s_override_note and "<" in s_override_note)
InequalityPresent(s_clean, s_override_note) ==
    \/ Contains(s_clean, <<"<">>)
    \/ (s_override_note # None /\ s_override_note[1] # <<>>
        /\ Contains(s_override_note[1], <<"<">>))

\* lines 312-320: the flags for vague and inequality amounts
CellFlags(mo_clean, s_clean, s_override_note) ==
    (IF InequalityPresent(s_clean, s_override_note)
     THEN <<"inequality_value_present">> ELSE <<>>)
    \o (IF Contains(Lower(s_clean), <<"r", "i", "c", "h">>)
        THEN <<"sulfur_amount_vague">> ELSE <<>>)
    \o (IF EndsWith(mo_clean, "-") \/ Strip(mo_clean) \in Sentinels
        THEN <<"mo_source_amount_missing">> ELSE <<>>)
    \o (IF Contains(mo_clean, <<"SIM">>) \/ Contains(s_clean, <<"SIM">>)
        THEN <<"approximate_value_present">> ELSE <<>>)

\* lines 322-327
MissingRequired(condition) ==
    (IF condition.material = None THEN <<"material">> ELSE <<>>)
    \o (IF condition.growth_method = None THEN <<"growth_method">> ELSE <<>>)
    \o (IF condition.temperature_C = None THEN <<"temperature_C">> ELSE <<>>)

InSeq(x, q) == \E k \in 1..Len(q) : q[k] = x

Max(a, b) == IF a >= b THEN a ELSE b

Min(a, b) == IF a <= b THEN a ELSE b

BaseConfidence == 90

FieldPenalty == 15

AmbiguousPenalty == 10

RangePenalty == 8

ProfilePenalty == 12

\* a faulty confidence, which forgets the penalty of a missing pressure
ConfidenceTwoFields(condition, flags) ==
    LET c0 == BaseConfidence
        c1 == IF condition.temperature_C = None THEN c0 - FieldPenalty ELSE c0
        c3 == IF condition.growth_time_min = None THEN c1 - FieldPenalty ELSE c1
        c4 == IF InSeq("ambiguous_value", flags) THEN c3 - AmbiguousPenalty ELSE c3
        c5 == IF InSeq("range_value_unresolved", flags) THEN c4 - RangePenalty ELSE c4
        c6 == IF InSeq("temperature_profile_unparsed", flags) THEN c5 - ProfilePenalty ELSE c5
    IN  Max(0, Min(100, c6))

\* lines 329-341, in hundredths
Confidence(condition, flags) ==
    LET c0 == BaseConfidence
        c1 == IF condition.temperature_C = None THEN c0 - FieldPenalty ELSE c0
        c2 == IF condition.pressure_Torr = None THEN c1 - FieldPenalty ELSE c1
        c3 == IF condition.growth_time_min = None THEN c2 - FieldPenalty ELSE c2
        c4 == IF InSeq("ambiguous_value", flags) THEN c3 - AmbiguousPenalty ELSE c3
        c5 == IF InSeq("range_value_unresolved", flags) THEN c4 - RangePenalty ELSE c4
        c6 == IF InSeq("temperature_profile_unparsed", flags) THEN c5 - ProfilePenalty ELSE c5
    IN  Max(0, Min(100, c6))

RECURSIVE Join(_)
\* "".join of the characters of a text
Join(t) == IF t = <<>> THEN "" ELSE Head(t) \o Join(Tail(t))

\* sha_id(doi, rid): the digest is kept as the text it is taken of
sha_id(doi, rid) == <<"sha1[:16]", doi, rid>>

\* the closure variables of build_one: lines 228-234 and the arguments of
\* row_to_records
Closure(c, paper_meta, table_id, row_index) ==
    [mo         |-> c["Mo source"],
     s          |-> Get(c, "Sulfur source"),
     temp_time  |-> Get(c, "Temp. Time"),
     pressure   |-> Get(c, "Pressure"),
     gas        |-> Get(c, "Carrier gas Flow rate"),
     substrate  |-> Get(c, "Substrate/ Set-up"),
     ref        |-> clean(Get(c, "Ref")),
     paper_meta |-> paper_meta,
     table_id   |-> table_id,
     row_index  |-> row_index]

\* lines 240-350, with the results of the three extractors and the two
\* cleaned load cells
BuildRecord(cl, mo_override_g, s_override_note, suffix, base, tt, pr, gf, mo_clean, s_clean) ==
    LET condition ==
            [base.condition EXCEPT
                !.material        = Some("MoS2"),
                !.growth_method   = Some("TVD CVD"),
                !.substrate       = Some(clean(cl.substrate)),
                !.temperature_C   = tt.temperature_C,
                !.growth_time_min = tt.growth_time_min,
                !.pressure_Torr   = pr.pressure_Torr,
                !.carrier_gas     = gf.carrier_gas,
                !.gas_flows_sccm  = gf.gas_flows_sccm,
                !.reactants       = Reactants(mo_clean, s_clean),
                !.notes           = Some(Notes(mo_clean, s_clean, mo_override_g,
                                               s_override_note, cl.ref))]
        evidence ==
            [base.evidence EXCEPT
                !.growth_method   = @ \o << <<"Table 3 (TVD growth parameters)">> >>,
                !.substrate       = @ \o <<clean(cl.substrate)>>,
                !.temperature_C   = @ \o tt.evidence.temperature_C,
                !.growth_time_min = @ \o tt.evidence.growth_time_min,
                !.pressure_Torr   = @ \o pr.evidence,
                !.gas_flows_sccm  = @ \o gf.evidence,
                !.reactants       = @ \o <<mo_clean>>
                                      \o (IF s_clean # <<>> THEN <<s_clean>> ELSE <<>>)]
        flags1   == base.quality.flags \o tt.flags \o pr.flags \o gf.flags
                    \o CellFlags(mo_clean, s_clean, s_override_note)
        flags2   == Append(flags1, "review_table_row")
                    \o (IF cl.ref # <<>> THEN <<"cited_ref_" \o Join(cl.ref)>> ELSE <<>>)
        rid      == <<cl.table_id, "_r", cl.row_index>>
                    \o (IF suffix # None /\ suffix[1] # "" THEN <<"_", suffix[1]>> ELSE <<>>)
    IN  [record_id |-> sha_id(IF "doi" \in DOMAIN cl.paper_meta THEN cl.paper_meta["doi"] ELSE "",
                              rid),
         paper     |-> base.paper,
         condition |-> condition,
         outcomes  |-> base.outcomes,
         evidence  |-> evidence,
         quality   |-> [confidence |-> Confidence(condition, flags1),
                        missing_required_fields |-> MissingRequired(condition),
                        flags |-> flags2]]

build_one(cl, mo_override_g, s_override_note, suffix) ==
    BuildRecord(cl, mo_override_g, s_override_note, suffix,
                make_base(cl.paper_meta),
                parse_temp_time(cl.temp_time),
                parse_pressure(cl.pressure),
                parse_gas_flows(cl.gas),
                CleanCell(cl.mo),
                CleanCell(cl.s))

\* str(i) for the sub-indices of a split row
Str(i) == Join(IF i < 10 THEN <<DigitSeq[i + 1]>>
               ELSE <<DigitSeq[(i \div 10) + 1], DigitSeq[(i % 10) + 1]>>)

\* a faulty loop, which appends the record without marking it
MarkSplitForgotten(rec) == rec

\* line 357: rec.quality["flags"].append("row_split_into_multiple_conditions")
MarkSplit(rec) ==
    [rec EXCEPT !.quality.flags = Append(@, "row_split_into_multiple_conditions")]

\* `if paired:` - neither None nor an empty list
Truthy(p) == p # None /\ p[1] # <<>>

---------------------------------------------------------------------------
(* The inputs: bounded sets of cells and rows *)

\* the digits 1..MaxDigit are the digits of the generated numbers
MaxDigit == 2

\* the largest number of loads in a generated mass or sulfur cell
MaxLoads == 3

InDigits == {DigitSeq[d + 1] : d \in 1..MaxDigit}

\* the numbers of the generated cells: d and d.5
InNums == {<<d>> : d \in InDigits} \cup {<<d, ".", "5">> : d \in InDigits}

RECURSIVE JoinWith(_, _)
\* sep.join(parts)
JoinWith(parts, sep) ==
    IF parts = <<>> THEN <<>>
    ELSE IF Len(parts) = 1 THEN parts[1]
    ELSE parts[1] \o sep \o JoinWith(Tail(parts), sep)

\* "0.1 g 0.2 g ...": up to MaxLoads masses
MoLists ==
    {JoinWith([k \in 1..n |-> <<"0", ".", DigitSeq[k + 1], " ", "g">>], <<" ">>) :
        n \in 0..MaxLoads}

\* "k g" or "<k g" for the k-th of up to MaxLoads sulfur amounts
SLists ==
    UNION {{JoinWith([k \in 1..n |-> (IF lt[k] THEN <<"<">> ELSE <<>>)
                                      \o <<DigitSeq[k + 1], " ", "g">>], <<" ">>) :
               lt \in [1..n -> BOOLEAN]} : n \in 0..MaxLoads}

MoSpecials ==
    {<<"M", "o", "O", "3", " ", "p", "o", "w", "d", "e", "r", " ", "0", ".", "4", " ", "g">>,
     <<"M", "o", "C", "l", "5", " ", "1", " ", "g", " ", "2", " ", "g">>,
     <<"M", "o", "S", "2", " ", "p", "o", "w", "d", "e", "r">>,
     <<"M", "o", "O", "3", " ", "n", "a", "n", "o", "r", "i", "b", "b", "o", "n", "s">>,
     <<"S", "i", "n", "g", "l", "e", " ", "s", "o", "u", "r", "c", "e", " ", "1", " ", "g", " ", "2", " ", "g">>,
     <<"-">>,
     <<"EM">>,
     <<"1", " ", "g", " ", "2", " ", "g", " ", "-">>,
     <<"SIM", "1", " ", "g", " ", "2", " ", "g">>,
     <<"1", "g", "2", "g">>,
     <<"1", " ", "g", "x", " ", "2", " ", "g", " ", "3", " ", "g">>,
     <<" ", " ", "1", " ", "g", " ", " ", "2", " ", "g", " ">>}

SSpecials ==
    {<<"S", " ", "p", "o", "w", "d", "e", "r", " ", "0", ".", "8", " ", "g">>,
     <<"-">>,
     <<"S", " ", "r", "i", "c", "h">>,
     <<"H", "2", "S", " ", "1", " ", "g", " ", "2", " ", "g">>,
     <<"<", "1", "g", "<", " ", "2", " ", "g">>,
     <<"SIM", "1", " ", "g", " ", "2", " ", "g">>,
     <<"1", " ", "g", " ", "2", " ", "g", "x", " ", "3", " ", "g">>,
     <<" ", "1", " ", "g", " ", " ", "2", " ", "g">>}

MoCells == MoLists \cup MoSpecials

SCells == SLists \cup SSpecials

\* "n C", "n-n C", ... : a temperature clause
TempClauses ==
    {<<>>}
    \cup {n \o u : n \in InNums, u \in {<<"C">>, <<" ", "DEG", "C">>}}
    \cup {a \o d \o b \o u : a \in InNums, b \in InNums, d \in {<<"-">>, <<"EN">>},
                             u \in {<<"C">>, <<" ", "DEG", "C">>}}

\* "n min", "n-n min": a time clause
TimeClauses ==
    {<<>>}
    \cup {<<n, " ", "m", "i", "n">> : n \in InDigits}
    \cup {<<a>> \o d \o <<b, " ", "m", "i", "n">> :
              a \in InDigits, b \in InDigits, d \in {<<"-">>, <<"EN">>}}

TempTimeCells ==
    {t \o <<" ">> \o m : t \in TempClauses, m \in TimeClauses}
    \cup {<<"SIM", "6", "5", "0", " ", "DEG", "C", "/", " ", "1", "5", " ", "EN", " ", "2", "0", " ", "m", "i", "n">>,
     <<"~", "5", "C", " ", "3", "m", "i", "n">>,
     <<"7", "8", "0", "EN", "6", "5", "0", " ", "DEG", "C", " ", "1", "0", " ", "m", "i", "n">>,
     <<"1", " ", "-", " ", "2", " ", "C", " ", "1", " ", "-", " ", "2", " ", "m", "i", "n">>,
     <<"7", "8", "0", "EN", "6", "5", "0", " ", "DEG", "C", " ", "3", "0", "EN", "6", "0", " ", "m", "i", "n">>,
     <<"7", "8", "0", "-", "6", "5", "0", ".", "5", " ", "DEG", "C", " ", "1", "0", " ", "m", "i", "n">>,
     <<"5", " ", "m", "i", "n", "u", "t", "e", "s">>,
     <<"5", " ", "K">>}

PressureCells ==
    {n \o u : n \in InNums \cup {<<"-", "1">>},
              u \in {<<"P", "a">>,
     <<" ", "P", "a">>,
     <<" ", "P", "A">>,
     <<" ", "T", "o", "r", "r">>,
     <<"t", "o", "r", "r">>,
     <<" ", "P", "a", "s", "c", "a", "l">>,
     <<" ", "T", "o", "r", "r", "s">>,
     <<" ", "m", "b", "a", "r">>,
     <<" ", "T", "o", "r", "r", " ", "2", " ", "P", "a">>,
     <<" ", "P", "a", " ", "2", " ", "T", "o", "r", "r">>}}
    \cup {<<"a", "m", "b", "i", "e", "n", "t">>,
     <<"A", "m", "b", "i", "e", "n", "t">>,
     <<" ", "A", "M", "B", "I", "E", "N", "T", " ">>,
     <<"a", "m", "b", "i", "e", "n", "t", " ", "1", " ", "P", "a">>,
     <<"a", "m", "b", "i", "e", "n", "t", " ", "p", "r", "e", "s", "s", "u", "r", "e">>,
     <<"x">>,
     <<"7", "6", "0", " ", "T", "o", "r", "r">>,
     <<"1", "3", "3", ".", "3", "2", "2", " ", "P", "a">>}

GasCells ==
    {<<"N", "2", " ", "1", " ", "s", "c", "c", "m">>,
     <<"A", "r", " ", "1", "0", " ", "s", "c", "c", "m">>,
     <<"A", "r", "1", "4", " ", "s", "c", "c", "m", " ", "H", "2", "/", "2", " ", "s", "c", "c", "m">>,
     <<"A", "r", " ", "1", " ", "s", "c", "c", "m", " ", "A", "r", " ", "2", " ", "s", "c", "c", "m">>,
     <<"N", "2", "/", "1", " ", "s", "c", "c", "m">>,
     <<"(", "C", "2", "H", "5", ")", "2", "S", " ", "1", ".", "5", " ", "s", "c", "c", "m">>,
     <<"A", "r", " ", "1", " ", "s", "c", "c", "m", "x">>,
     <<"1", " ", "s", "c", "c", "m">>,
     <<"A", "r">>}

\* the missing-value sentinels, bare and padded
SentinelCells ==
    {p \o c \o q : c \in Sentinels, p \in {<<>>, <<" ">>}, q \in {<<>>, <<" ">>, <<"THIN">>}}

\* the empty cell and near-sentinels
OtherCells == {<<>>,
     <<"-", "-">>,
     <<"-", " ", "-">>,
     <<"-", "1">>}

Cells ==
    TempTimeCells \cup PressureCells \cup MoCells \cup SCells \cup GasCells
    \cup SentinelCells \cup OtherCells

Columns ==
    {"Mo source", "Sulfur source", "Temp. Time", "Pressure", "Carrier gas Flow rate",
     "Substrate/ Set-up", "Ref"}

Row(mo, s, tt, p, g, sub, ref) ==
    ("Mo source" :> mo) @@ ("Sulfur source" :> s) @@ ("Temp. Time" :> tt)
    @@ ("Pressure" :> p) @@ ("Carrier gas Flow rate" :> g)
    @@ ("Substrate/ Set-up" :> sub) @@ ("Ref" :> ref)

\* the row of main()
MainRow ==
    Row(<<"M", "o", "O", "3", " ", "p", "o", "w", "d", "e", "r", " ", "0", ".", "4", " ", "g">>, <<"S", " ", "p", "o", "w", "d", "e", "r", " ", "0", ".", "8", " ", "g">>, <<"6", "5", "0", " ", "C", " ", "1", "5", " ", "m", "i", "n">>, <<"a", "m", "b", "i", "e", "n", "t">>,
        <<"N", "2", " ", "1", " ", "s", "c", "c", "m">>, <<"S", "i", "O", "2", "/", "S", "i", " ", "f", "a", "c", "e", "-", "d", "o", "w", "n">>, <<"1", "4">>)

RowTempTimes ==
    {<<"6", "5", "0", " ", "DEG", "C", " ", "1", "5", " ", "m", "i", "n">>,
     <<"7", "8", "0", "EN", "6", "5", "0", " ", "DEG", "C", " ", "1", "0", " ", "m", "i", "n">>,
     <<"5", "3", "0", " ", "DEG", "C", " ", "3", "0", "EN", "6", "0", " ", "m", "i", "n">>,
     <<"7", "8", "0", "-", "6", "5", "0", " ", "C", " ", "3", "0", "-", "6", "0", " ", "m", "i", "n">>,
     <<"7", "8", "0", "-", "6", "5", "0", ".", "5", " ", "DEG", "C", " ", "1", "0", " ", "m", "i", "n">>,
     <<"6", "5", "0", " ", "C">>,
     <<"1", "5", " ", "m", "i", "n">>,
     <<"-">>,
     <<>>}

RowPressures == {<<"a", "m", "b", "i", "e", "n", "t">>,
     <<"EN">>,
     <<"3", "0", " ", "P", "a">>,
     <<"2", " ", "T", "o", "r", "r">>,
     <<"1", " ", "a", "t", "m">>,
     <<>>}

RowGases == {<<"N", "2", " ", "1", " ", "s", "c", "c", "m">>,
     <<"-">>}

RowRefs == {<<"5", "6">>,
     <<" ", "1", "4", " ">>,
     <<>>}

RowLoads ==
    {<<<<"M", "o", "O", "3", " ", "p", "o", "w", "d", "e", "r", " ", "0", ".", "4", " ", "g">>, <<"S", " ", "p", "o", "w", "d", "e", "r", " ", "0", ".", "8", " ", "g">>>>,
     <<<<"0", ".", "2", " ", "g", " ", "0", ".", "4", " ", "g">>, <<"0", ".", "5", " ", "g", " ", "0", ".", "9", " ", "g">>>>,
     <<<<"1", " ", "g", " ", "2", " ", "g">>, <<"<", "1", " ", "g", " ", "2", " ", "g">>>>}

\* rows that vary the two load cells
SplitRows ==
    {[MainRow EXCEPT !["Mo source"] = mo, !["Sulfur source"] = s] :
        mo \in MoCells, s \in SCells}

\* rows that vary the other cells
QualityRows ==
    {Row(l[1], l[2], tt, p, g, <<"S", "i", "O", "2", "/", "S", "i", " ", " ", "f", "a", "c", "e", "-", "d", "o", "w", "n", " ">>, ref) :
        l \in RowLoads, tt \in RowTempTimes, p \in RowPressures, g \in RowGases,
        ref \in RowRefs}

\* rows that lack columns
PartialRows ==
    {[k \in K |-> r[k]] :
        K \in SUBSET Columns,
        r \in {MainRow, [MainRow EXCEPT !["Mo source"] = <<"1", " ", "g", " ", "2", " ", "g">>,
                                        !["Sulfur source"] = <<"1", " ", "g", " ", "<", "2", " ", "g">>]}}

Rows == SplitRows \cup QualityRows \cup PartialRows

PaperMeta ==
    [doi |-> "10.1002/cvde.201500060",
     title |-> "CVD Growth of MoS2-based Two-dimensional Materials",
     year |-> "2015", venue |-> "Chemical Vapor Deposition", url |-> "None"]

TableId == "cvde201500060_table3"

---------------------------------------------------------------------------
(* row_to_records(cols, PaperMeta, TableId, 1) as a state machine *)

Init ==
    /\ cols \in Rows
    /\ pc = "call"
    /\ paired = None
    /\ idx = 0
    /\ records = <<>>
    /\ cell = <<>>
    /\ out = <<>>

\* line 228: cols["Mo source"] on a row without the key
RowKeyError ==
    /\ pc = "call"
    /\ RaisesKeyError(cols)
    /\ pc' = "KeyError"
    /\ UNCHANGED <<cols, paired, idx, records, cell, out>>

\* lines 228-237: read the cells, ask the splitter
RowSplit ==
    /\ pc = "call"
    /\ ~RaisesKeyError(cols)
    /\ paired' = split_multi_load_row(cols["Mo source"], Get(cols, "Sulfur source"))
    /\ pc' = "build"
    /\ UNCHANGED <<cols, idx, records, cell, out>>

\* lines 353-358: one turn of the loop over the pairs; the return after the last
BuildSplit ==
    /\ pc = "build"
    /\ Truthy(paired)
    /\ idx < Len(paired[1])
    /\ LET i   == idx + 1
           rec == build_one(Closure(cols, PaperMeta, TableId, 1),
                            Some(paired[1][i][1]), Some(paired[1][i][2]), Some(Str(i)))
       IN  /\ records' = Append(records, MarkSplit(rec))
           /\ idx' = i
           /\ pc' = IF i = Len(paired[1]) THEN "returned" ELSE "build"
    /\ UNCHANGED <<cols, paired, cell, out>>

\* lines 359-362: the one record of a row that is not split, and the return
BuildSingle ==
    /\ pc = "build"
    /\ ~Truthy(paired)
    /\ records' = Append(records, build_one(Closure(cols, PaperMeta, TableId, 1),
                                            None, None, None))
    /\ pc' = "returned"
    /\ UNCHANGED <<cols, paired, idx, cell, out>>

Next == RowKeyError \/ RowSplit \/ BuildSplit \/ BuildSingle

Spec == Init /\ [][Next]_vars

---------------------------------------------------------------------------
(* The extractors applied to one cell *)

InitExtract ==
    /\ cell \in Cells
    /\ pc = "cell"
    /\ out = <<>>
    /\ cols = <<>>
    /\ paired = None
    /\ idx = 0
    /\ records = <<>>

ApplyMass ==
    /\ pc = "cell"
    /\ out' = parse_g_mass_list(cell)
    /\ pc' = "parse_g_mass_list"
    /\ UNCHANGED <<cols, paired, idx, records, cell>>

ApplyTempTime ==
    /\ pc = "cell"
    /\ out' = parse_temp_time(cell)
    /\ pc' = "parse_temp_time"
    /\ UNCHANGED <<cols, paired, idx, records, cell>>

ApplyPressure ==
    /\ pc = "cell"
    /\ out' = parse_pressure(cell)
    /\ pc' = "parse_pressure"
    /\ UNCHANGED <<cols, paired, idx, records, cell>>

ApplyGasFlows ==
    /\ pc = "cell"
    /\ out' = parse_gas_flows(cell)
    /\ pc' = "parse_gas_flows"
    /\ UNCHANGED <<cols, paired, idx, records, cell>>

NextExtract == ApplyMass \/ ApplyTempTime \/ ApplyPressure \/ ApplyGasFlows

SpecExtract == InitExtract /\ [][NextExtract]_vars

---------------------------------------------------------------------------
(* Properties of the extractors, under SpecExtract *)

\* the cleaned text of the cell the extractors work on
Raw == CleanCell(cell)

\* an unsigned number of the cell texts: digits, with an optional decimal part
Number ==
    <<"cat", << <<"plus", Digits>>,
                <<"opt", <<"cat", << <<"lit", ".">>, <<"plus", Digits>> >> >> >> >> >>

\* "<A>-<B> DEG C": number, hyphen or en-dash, number, the unit
TempRangeForm ==
    <<Number, WS, <<"cls", {"EN", "-"}>>, WS, Number, WS,
      <<"opt", <<"lit", "DEG">>>>, <<"lit", "C">> >>

\* the cell holds a temperature range "<A>-<B> DEG C" with A # B
HasTempRange(c) ==
    \E i \in 1..Len(c) :
        LET m == Path(TempRangeForm, 1, c, i)
        IN  m # <<>> /\ ToFloat(Group(c, m, 1)) # ToFloat(Group(c, m, 5))

\* the cell holds a time range: number, hyphen or en-dash, number, "min"
HasTimeRange(c) == Search(RE_TIME_RANGE, c, 1) # <<>>

\* C3: for every cell that holds a time range pattern, parse_temp_time
\* returns growth_time_min = None and the flag range_value_unresolved,
\* whatever the temperature part of the cell is.
TimeRangeUnresolved ==
    (pc = "parse_temp_time" /\ HasTimeRange(Raw))
        => /\ out.growth_time_min = None
           /\ InSeq("range_value_unresolved", out.flags)

\* C4: for every cell that holds a temperature range "<A>-<B> DEG C" with
\* A # B, parse_temp_time returns temperature_C = None and the flag
\* temperature_profile_unparsed, whatever time text surrounds it.
TempRangeRejected ==
    (pc = "parse_temp_time" /\ HasTempRange(Raw))
        => /\ out.temperature_C = None
           /\ InSeq("temperature_profile_unparsed", out.flags)

PressureFlags == {"pressure_assumed_ambient", "pressure_missing", "pressure_unparsed"}

Ambient == <<"a", "m", "b", "i", "e", "n", "t">>

\* the value of the first "<number> Pa" of the text, in Torr
PaValue(low) == PaToTorr(ToFloat(Group(low, Search(RE_PA, low, 1), 1)))

\* the value of the first "<number> Torr" of the text
TorrValue(low) == ToFloat(Group(low, Search(RE_TORR, low, 1), 1))

\* C6: the flags of parse_pressure are mutually exclusive: the list holds at
\* most one flag, one of pressure_assumed_ambient, pressure_missing and
\* pressure_unparsed; with pressure_assumed_ambient the value is 760; the
\* value is None exactly when the flag is pressure_missing (the cell is a
\* sentinel) or pressure_unparsed (no Pa or Torr number); a Pa or Torr cell
\* yields its number without a flag, the Pa number when both are there.
PressureFlagsExclusive ==
    pc = "parse_pressure" =>
        LET low   == Lower(Raw)
            flags == out.flags
            hasPa == Search(RE_PA, low, 1) # <<>>
            hasTo == Search(RE_TORR, low, 1) # <<>>
        IN  /\ Len(flags) <= 1
            /\ \A k \in 1..Len(flags) : flags[k] \in PressureFlags
            /\ InSeq("pressure_assumed_ambient", flags) <=> low = Ambient
            /\ InSeq("pressure_assumed_ambient", flags) => out.pressure_Torr = Some(<<760, 1>>)
            /\ out.pressure_Torr = None
                   <=> (InSeq("pressure_missing", flags) \/ InSeq("pressure_unparsed", flags))
            /\ InSeq("pressure_missing", flags) <=> Raw \in Sentinels
            /\ InSeq("pressure_unparsed", flags) => (~hasPa /\ ~hasTo)
            /\ (low # Ambient /\ hasPa)
                   => (flags = <<>> /\ out.pressure_Torr = Some(PaValue(low)))
            /\ (low # Ambient /\ ~hasPa /\ hasTo)
                   => (flags = <<>> /\ out.pressure_Torr = Some(TorrValue(low)))

\* a cell with a Torr number before a Pa number has been read as its Pa number
PressureFlagsExclusiveWitness ==
    /\ pc = "parse_pressure"
    /\ cell = <<"1", " ", "T", "o", "r", "r", " ", "2", " ", "P", "a">>
    /\ out.flags = <<>>
    /\ out.pressure_Torr = Some(<<1000, 66661>>)

\* the cell is a missing-value sentinel
IsSentinel == Raw \in Sentinels

\* C8 as stated: for every sentinel cell each extractor returns None or
\* absence for its value together with a missing or unparsed flag, and never
\* a numeric value; the mass list, which has no flags, marks by its None.
SentinelFlagged ==
    IsSentinel =>
        /\ pc = "parse_g_mass_list" => out = <<None>>
        /\ pc = "parse_temp_time"
               => /\ out.temperature_C = None /\ out.growth_time_min = None
                  /\ out.flags # <<>>
        /\ pc = "parse_pressure"
               => out.pressure_Torr = None /\ InSeq("pressure_missing", out.flags)
        /\ pc = "parse_gas_flows"
               => /\ out.carrier_gas = <<>> /\ out.gas_flows_sccm = <<>>
                  /\ InSeq("gas_flow_unparsed", out.flags)

\* C8: for every sentinel cell each extractor returns None or absence for
\* its value and never a numeric value; parse_pressure flags pressure_missing
\* and parse_gas_flows flags gas_flow_unparsed, while parse_g_mass_list
\* returns [None] and parse_temp_time returns no flag at all and keeps the
\* cell as evidence of both values.
SentinelAbsent ==
    IsSentinel =>
        /\ pc = "parse_g_mass_list" => out = <<None>>
        /\ pc = "parse_temp_time"
               => /\ out.temperature_C = None /\ out.growth_time_min = None
                  /\ out.flags = <<>>
                  /\ out.evidence.temperature_C = <<Raw>>
                  /\ out.evidence.growth_time_min = <<Raw>>
        /\ pc = "parse_pressure"
               => out.pressure_Torr = None /\ out.flags = <<"pressure_missing">>
        /\ pc = "parse_gas_flows"
               => /\ out.carrier_gas = <<>> /\ out.gas_flows_sccm = <<>>
                  /\ out.flags = <<"gas_flow_unparsed">>

\* parse_gas_flows has read a padded en-dash
SentinelAbsentWitness ==
    /\ pc = "parse_gas_flows"
    /\ cell = <<" ", "EN", "THIN">>
    /\ out.flags = <<"gas_flow_unparsed">>

---------------------------------------------------------------------------
(* Properties of row_to_records, under Spec *)

SplitFlagName == "row_split_into_multiple_conditions"

\* the places of a cell where a "<number> g" ends: a "g" that ends a word,
\* after a digit and any white space
GramMarks(c) ==
    {p \in 1..Len(c) :
        /\ c[p] = "g"
        /\ (p = Len(c) \/ c[p + 1] \notin WordChars)
        /\ \E q \in 1..(p - 1) :
               c[q] \in Digits /\ \A j \in (q + 1)..(p - 1) : c[j] \in Spaces}

\* the masses of a cleaned cell, in cell order
MassesOf(c, ms) == [i \in 1..Len(ms) |-> ToFloat(Group(c, ms[i], 1))]

\* the quantity tokens of a cleaned cell, in cell order
TokensOf(c, ms) == [i \in 1..Len(ms) |-> Group(c, ms[i], 1)]

\* the record with sub-index i of a split row, built of a mass and a token
IsSubRecord(r, i, mass, token) ==
    /\ r.record_id[3] = <<TableId, "_r", 1, "_", Str(i)>>
    /\ r.condition.notes[1][1] = <<"Mo source load override from paired list:", mass, <<"g">> >>
    /\ r.condition.notes[1][2] = <<"S source load override from paired list:", token>>

\* the one record of a row that is not split
IsUnsplitRecord(r, mo) ==
    /\ r.record_id[3] = <<TableId, "_r", 1>>
    /\ r.condition.notes[1][1] = <<"Mo source cell:", mo>>

\* the records of a row with m masses and k tokens
RecordsOfLoads(m, k, mo, masses, tokens) ==
    /\ Len(masses) = m
    /\ Len(tokens) = k
    /\ IF m >= 2 /\ k >= 2 /\ m = k
       THEN /\ Len(records) = m
            /\ \A i \in 1..m : IsSubRecord(records[i], i, masses[i], tokens[i])
       ELSE /\ Len(records) = 1
            /\ IsUnsplitRecord(records[1], mo)

\* the masses of the "Mo source" cell of the row
RowMasses ==
    MassesOf(CleanCell(cols["Mo source"]), FindAll(RE_MASS, CleanCell(cols["Mo source"])))

\* the quantity tokens of the "Sulfur source" cell of the row
RowTokens ==
    TokensOf(CleanCell(Get(cols, "Sulfur source")),
             FindAll(RE_S_TOKEN, CleanCell(Get(cols, "Sulfur source"))))

\* C1: with m the number of "<number> g" in the "Mo source" cell and k the
\* number of quantity tokens in the "Sulfur source" cell, row_to_records
\* returns m records when m >= 2, k >= 2 and m = k, the i-th with sub-index
\* i and built of the i-th mass and the i-th token; in every other case it
\* returns one unsplit record.
LoadSplit ==
    pc = "returned" =>
        RecordsOfLoads(Cardinality(GramMarks(cols["Mo source"])),
                       Cardinality(GramMarks(Get(cols, "Sulfur source"))),
                       CleanCell(cols["Mo source"]), RowMasses, RowTokens)

\* a row of three loads has been returned as three records
LoadSplitWitness ==
    /\ pc = "returned"
    /\ Len(records) = 3
    /\ records[2].condition.notes[1][1][2] = <<1, 5>>
    /\ records[2].condition.notes[1][2][2] = <<"<", "2", " ", "g">>

\* C2: a record carries row_split_into_multiple_conditions if and only if
\* split_multi_load_row returned a pairing for its row: every record of a
\* split row carries it, the record of a row that is not split never does.
SplitFlag ==
    /\ \A i \in 1..Len(records) :
           InSeq(SplitFlagName, records[i].quality.flags) <=> paired # None
    /\ pc = "returned" => (paired # None <=> Len(records) >= 2)

\* both records of a split row carry the flag
SplitFlagWitness ==
    /\ pc = "returned"
    /\ paired # None
    /\ Len(records) = 2
    /\ \A i \in 1..2 : InSeq(SplitFlagName, records[i].quality.flags)

\* the numeric fields of a condition
NumericFields ==
    {"temperature_C", "pressure_Torr", "growth_time_min", "ramp_rate_C_per_min",
     "anneal.temperature_C", "anneal.time_min"}

PrimaryFields == {"temperature_C", "pressure_Torr", "growth_time_min"}

\* the value of a numeric field of a record
FieldValue(r, f) ==
    IF f = "anneal.temperature_C" THEN r.condition.anneal.temperature_C
    ELSE IF f = "anneal.time_min" THEN r.condition.anneal.time_min
    ELSE r.condition[f]

\* the flags that tell of an absent value of a field
FlagsOfField(f) ==
    IF f = "temperature_C" THEN {"temperature_profile_unparsed"}
    ELSE IF f = "pressure_Torr" THEN {"pressure_missing", "pressure_unparsed"}
    ELSE IF f = "growth_time_min" THEN {"range_value_unresolved"}
    ELSE {}

\* a flag or an evidence entry of the record corresponds to the field
Explained(r, f) ==
    \/ \E g \in FlagsOfField(f) : InSeq(g, r.quality.flags)
    \/ (f \in DOMAIN r.evidence /\ r.evidence[f] # <<>>)

\* C5 as stated: every numeric field of the condition that is None has a
\* flag or an evidence entry that corresponds to it.
NoSilentNone ==
    \A i \in 1..Len(records) : \A f \in NumericFields :
        FieldValue(records[i], f) = None => Explained(records[i], f)

\* C5: each of temperature_C, pressure_Torr and growth_time_min that is None
\* has the cleaned text of its cell as evidence; ramp_rate_C_per_min and the
\* anneal temperature and time are None in every record, with neither a flag
\* nor an evidence entry.
NoSilentPrimaryNone ==
    \A i \in 1..Len(records) :
        /\ \A f \in PrimaryFields :
               FieldValue(records[i], f) = None
                   => records[i].evidence[f] =
                          <<CleanCell(Get(cols, IF f = "pressure_Torr" THEN "Pressure"
                                                ELSE "Temp. Time"))>>
        /\ \A f \in NumericFields \ PrimaryFields :
               FieldValue(records[i], f) = None /\ ~Explained(records[i], f)

\* a record without any of the three values has been returned
NoSilentPrimaryNoneWitness ==
    /\ pc = "returned"
    /\ \A f \in PrimaryFields : FieldValue(records[1], f) = None
    /\ records[1].evidence.temperature_C = << <<"-">> >>
    /\ records[1].evidence.pressure_Torr = << <<"EN">> >>

\* 1 if the flag is among the flags, else 0
Flagged(r, g) == IF InSeq(g, r.quality.flags) THEN 1 ELSE 0

\* the number of the three primary fields that are None
Unresolved(r) == Cardinality({f \in PrimaryFields : r.condition[f] = None})

\* C7: the confidence, in hundredths, is 90 minus 15 for each of
\* temperature_C, pressure_Torr, growth_time_min that is None, minus 10 with
\* ambiguous_value, minus 8 with range_value_unresolved, minus 12 with
\* temperature_profile_unparsed, clamped to 0..100; it is 90 exactly when the
\* three fields are resolved and none of these flags is present.
ConfidenceFormula ==
    \A i \in 1..Len(records) :
        LET r == records[i]
            v == 90 - 15 * Unresolved(r) - 10 * Flagged(r, "ambiguous_value")
                    - 8 * Flagged(r, "range_value_unresolved")
                    - 12 * Flagged(r, "temperature_profile_unparsed")
        IN  /\ r.quality.confidence = (IF v < 0 THEN 0 ELSE IF v > 100 THEN 100 ELSE v)
            /\ r.quality.confidence \in 0..100
            /\ r.quality.confidence = 90
                   <=> /\ Unresolved(r) = 0
                       /\ Flagged(r, "ambiguous_value") = 0
                       /\ Flagged(r, "range_value_unresolved") = 0
                       /\ Flagged(r, "temperature_profile_unparsed") = 0

\* a record with two absent values and both flags has confidence 0.40
ConfidenceFormulaWitness ==
    /\ pc = "returned"
    /\ Unresolved(records[1]) = 2
    /\ Flagged(records[1], "range_value_unresolved") = 1
    /\ Flagged(records[1], "temperature_profile_unparsed") = 1
    /\ records[1].quality.confidence = 40

\* C9: row_to_records does not fail on cell texts: of a row with the
\* "Mo source" key it returns a list of at least one record, whatever the
\* cells, and on the way never lacks a next step; it fails only on a row
\* without the key, and then makes no record.
NoCellFailure ==
    /\ pc = "KeyError" => ("Mo source" \notin DOMAIN cols /\ records = <<>>)
    /\ pc = "returned" => ("Mo source" \in DOMAIN cols /\ Len(records) >= 1)
    /\ (pc = "build" /\ Truthy(paired)) => idx < Len(paired[1])

\* a row with no other column than "Mo source" has given a record
NoCellFailureWitness ==
    /\ pc = "returned"
    /\ DOMAIN cols = {"Mo source"}
    /\ Len(records) = 1
    /\ records[1].condition.temperature_C = None

\* C10: the records of a split row are the same in every condition field but
\* notes, and in evidence, confidence, missing_required_fields and flags;
\* the paired values show in the notes only and the sub-index in record_id
\* only.
SubRecordsAgree ==
    \A i, j \in 1..Len(records) :
        /\ [records[i].condition EXCEPT !.notes = None]
               = [records[j].condition EXCEPT !.notes = None]
        /\ records[i].evidence = records[j].evidence
        /\ records[i].quality = records[j].quality
        /\ records[i].paper = records[j].paper
        /\ records[i].outcomes = records[j].outcomes
        /\ records[i].condition.notes[1][Len(records[i].condition.notes[1])]
               = records[j].condition.notes[1][Len(records[j].condition.notes[1])]

\* a split row with "<" in its second token only: both records carry
\* inequality_value_present
SubRecordsAgreeWitness ==
    /\ pc = "returned"
    /\ Len(records) = 2
    /\ ~Contains(records[1].condition.notes[1][2][2], <<"<">>)
    /\ Contains(records[2].condition.notes[1][2][2], <<"<">>)
    /\ InSeq("inequality_value_present", records[1].quality.flags)

=============================================================================
